---- MODULE Spec2Model ----
(***************************************************************************)
(* EmpowerHER dashboard (src/app.py): a Streamlit script that is executed  *)
(* from top to bottom once per user interaction.  One browser session is   *)
(* modelled.  A script run is a sequence of steps (pc); between runs the   *)
(* session is idle and the user, or the file system, may act.              *)
(*                                                                         *)
(* Optional values (Python names that are unbound, None) are sequences of  *)
(* length 0 or 1.  Probabilities and the threshold are on a grid of        *)
(* hundredths: 53 stands for 0.53.                                         *)
(***************************************************************************)
EXTENDS Integers, Sequences, FiniteSets, TLC

\* Bound of the model: script runs per session.
MaxRuns == 4

Range(s) == {s[i] : i \in DOMAIN s}

EmptyFn == [x \in {} |-> 0]

----------------------------------------------------------------------------
\* Program constants

\* app.py:60
tabs == <<"About", "Risk Insights", "Mind & Move">>

\* app.py:129-138, the keys of each dict in insertion order (list(opts.keys()))
age_groups == <<1, 2, 3, 4, 5, 6, 7, 8, 9, 10, 11, 12, 13>>
race_eth == <<1, 2, 3, 4, 5, 6>>
menarche == <<0, 1, 2>>
birth_age == <<0, 1, 2, 3, 4>>
fam_hist == <<0, 1>>
biopsy == <<0, 1>>
density == <<1, 2, 3, 4>>
hormone_use == <<0, 1>>
menopause == <<1, 2, 3>>
bmi_group == <<1, 2, 3, 4>>

\* app.py:139-150, the keys of the inputs dict in insertion order
Fields ==
    <<"age_group", "race_eth", "age_menarche", "age_first_birth",
      "family_history", "personal_biopsy", "density", "hormone_use",
      "menopausal_status", "bmi_group">>

\* app.py:139-150, the domain dict each field's selectbox is built from
opts(f) ==
    CASE f = "age_group" -> age_groups
      [] f = "race_eth" -> race_eth
      [] f = "age_menarche" -> menarche
      [] f = "age_first_birth" -> birth_age
      [] f = "family_history" -> fam_hist
      [] f = "personal_biopsy" -> biopsy
      [] f = "density" -> density
      [] f = "hormone_use" -> hormone_use
      [] f = "menopausal_status" -> menopause
      [] f = "bmi_group" -> bmi_group

\* app.py:180-184, the tracker's number inputs
number_inputs ==
    [meditate_mins |-> [min_value |-> 0, max_value |-> 60, value |-> 0],
     exercise_mins |-> [min_value |-> 0, max_value |-> 180, value |-> 0],
     water_glasses |-> [min_value |-> 0, max_value |-> 20, value |-> 0]]

TrackerNames == {"meditate_mins", "exercise_mins", "water_glasses"}

\* app.py:185, texts the user may type into the diet log
DietLogs == {"", "oatmeal"}

\* app.py:188, the dates pd.Timestamp.now() may give
Dates == {"2025-06-01", "2025-06-02"}

----------------------------------------------------------------------------
\* The serialized artifacts (models/bcsc_xgb_model.pkl, models/threshold.pkl)

\* Column lists a fitted booster may declare: the ten fields in the order of
\* the inputs dict; a reordered subset; a list with columns no field is named
\* after.
FeatureLists ==
    { Fields,
      <<"bmi_group", "age_menarche", "age_group">>,
      <<"age_group", "year", "age_menarche", "first_degree_hx">> }

ModelArtifacts == {[feature_names |-> fl, base_score |-> 45] : fl \in FeatureLists}

Thresholds == {53, 90}

\* Per-feature contribution of the fixture booster, in hundredths.
Weight(name) ==
    CASE name = "age_group" -> 2
      [] name = "race_eth" -> 1
      [] name = "age_menarche" -> -1
      [] name = "age_first_birth" -> 1
      [] name = "family_history" -> 5
      [] name = "personal_biopsy" -> 4
      [] name = "density" -> 3
      [] name = "hormone_use" -> 2
      [] name = "menopausal_status" -> 1
      [] name = "bmi_group" -> 1
      [] OTHER -> 7

RECURSIVE Margin(_, _, _)
Margin(m, X, i) ==
    IF i > Len(X.row) THEN m.base_score
    ELSE Weight(m.feature_names[i]) * X.row[i] + Margin(m, X, i + 1)

Clip(x) == IF x < 0 THEN 0 ELSE IF x > 100 THEN 100 ELSE x

\* model.get_booster().feature_names
get_feature_names(m) == m.feature_names

\* The booster checks the frame's column names against its own before scoring.
predict_accepts(m, X) == X.columns = m.feature_names

\* model.predict_proba(X)[0, 1]
predict_proba(m, X) == Clip(Margin(m, X, 1))

----------------------------------------------------------------------------
\* Pure parts of the script

\* Mutant of selectbox_default: the default index, not the option at it.
selectbox_default_index(keys) == 0

\* app.py:128, st.selectbox without index: the first option is the default
selectbox_default(keys) == keys[1]

\* app.py:127-128, sel: the widget's stored value, or the default
sel(f, w) == IF f \in DOMAIN w THEN w[f] ELSE selectbox_default(opts(f))

\* app.py:151, pd.DataFrame(inputs, index=[0])
DataFrame(inp) ==
    [columns |-> Fields, dtype |-> "int64",
     row |-> [i \in 1..Len(Fields) |-> inp[Fields[i]]]]

\* The value a frame holds under a column name, or fill when it has no
\* such column (the frame's column names are unique: they are dict keys).
Lookup(df, name, fill) ==
    LET hits == {j \in 1..Len(df.columns) : df.columns[j] = name}
    IN  IF hits = {} THEN fill ELSE df.row[CHOOSE j \in hits : TRUE]

\* Mutants of reindex: no fill value (a missing column holds NaN, here -1);
\* columns taken by position; the frame's own columns kept.  The fill value
\* is an integer, so the frame keeps its dtype.
reindex_nofill(df, columns, fill_value) ==
    [columns |-> columns, dtype |-> df.dtype,
     row |-> [i \in 1..Len(columns) |-> Lookup(df, columns[i], -1)]]
reindex_positional(df, columns, fill_value) ==
    [columns |-> columns, dtype |-> df.dtype,
     row |-> [i \in 1..Len(columns) |->
                 IF i <= Len(df.row) THEN df.row[i] ELSE fill_value]]
reindex_keep(df, columns, fill_value) == df

\* app.py:153, raw_df.reindex(columns=expected, fill_value=0)
reindex(df, columns, fill_value) ==
    [columns |-> columns, dtype |-> df.dtype,
     row |-> [i \in 1..Len(columns) |-> Lookup(df, columns[i], fill_value)]]

\* np.float32 holds every integer of magnitude up to 2^24 exactly; beyond it
\* (up to 2^25) the value is rounded to a multiple of 2, ties to even.
Float32(x) ==
    IF x >= -16777216 /\ x <= 16777216 THEN x
    ELSE IF x % 2 = 0 THEN x
    ELSE IF (x + 1) % 4 = 0 THEN x + 1 ELSE x - 1

\* app.py:153, .astype(np.float32)
astype_float32(df) ==
    [columns |-> df.columns, dtype |-> "float32",
     row |-> [i \in DOMAIN df.row |-> Float32(df.row[i])]]

\* Mutant of score_input: the raw frame is scored.
score_input_raw(raw, aligned) == raw

\* app.py:154, the frame handed to model.predict_proba
score_input(raw, aligned) == aligned

\* Mutant of risk_label: the comparison excludes the threshold itself.
risk_label_strict(p, t) == IF p > t THEN "High risk" ELSE "Low risk"

\* app.py:155
risk_label(p, t) == IF p >= t THEN "High risk" ELSE "Low risk"

\* app.py:68-95, the navbar loop from button i on: the tab that ends up
\* active and the buttons styled as selected.
RECURSIVE NavLoop(_, _, _, _)
NavLoop(i, active, styledAcc, clk) ==
    IF i > Len(tabs) THEN [active_tab |-> active, styled |-> styledAcc]
    ELSE LET t == tabs[i]
             is_selected == active = t
             btn_clicked == clk = <<t>>
         IN  NavLoop(i + 1,
                     IF btn_clicked THEN t ELSE active,
                     IF is_selected THEN styledAcc \cup {t} ELSE styledAcc,
                     clk)

----------------------------------------------------------------------------
\* State

VARIABLES
    pc,               \* position of the script run, or "idle" between runs
    status,           \* "none", "running", "done" or "error": the latest run
    runs,             \* script runs started in this session
    session_state,    \* st.session_state: a function from its keys
    widget,           \* stored values of the ten selectboxes
    tracker,          \* stored values of the tracker's number inputs
    diet_log,         \* stored value of the diet log text area
    clicked,          \* the navbar button whose click started this run
    save_clicked,     \* whether a click on "Save Entry" started this run
    styled,           \* navbar buttons styled as selected in this run
    rendered,         \* elements put on the page in this run, in order
    model,            \* the script's global model
    threshold,        \* the script's global threshold
    tab,              \* the script's global tab
    inputs,           \* the inputs dict
    raw_df,
    expected,
    df_new,
    scored_arg,       \* the frame predict_proba was called on
    prob,
    risk_str,
    entry,            \* the wellness entry shown by "Save Entry"
    n_align,          \* reindex calls in this run
    n_classify,       \* threshold comparisons in this run
    n_load,           \* times the process has loaded the two artifacts
    n_cls,            \* classifications made in this session
    first_cls         \* the first of them: its inputs, artifacts, result and run

vars ==
    <<pc, status, runs, session_state, widget, tracker, diet_log, clicked,
      save_clicked, styled, rendered, model, threshold, tab, inputs, raw_df,
      expected, df_new, scored_arg, prob, risk_str, entry, n_align,
      n_classify, n_load, n_cls, first_cls>>

uiVars == <<widget, tracker, diet_log>>
procVars == <<n_load, n_cls, first_cls>>

Init ==
    /\ pc = "idle"
    /\ status = "none"
    /\ runs = 0
    /\ session_state = EmptyFn
    /\ widget = EmptyFn
    /\ tracker = EmptyFn
    /\ diet_log = <<>>
    /\ clicked = <<>>
    /\ save_clicked = FALSE
    /\ styled = {}
    /\ rendered = <<>>
    /\ model = <<>>
    /\ threshold = <<>>
    /\ tab = <<>>
    /\ inputs = <<>>
    /\ raw_df = <<>>
    /\ expected = <<>>
    /\ df_new = <<>>
    /\ scored_arg = <<>>
    /\ prob = <<>>
    /\ risk_str = <<>>
    /\ entry = <<>>
    /\ n_align = 0
    /\ n_classify = 0
    /\ n_load = 0
    /\ n_cls = 0
    /\ first_cls = <<>>

----------------------------------------------------------------------------
\* What starts a script run

\* A run starts at the top of the script with a fresh namespace.
BeginRun(clk, save) ==
    /\ pc = "idle"
    /\ runs < MaxRuns
    /\ pc' = "navbar"
    /\ status' = "running"
    /\ runs' = runs + 1
    /\ clicked' = clk
    /\ save_clicked' = save
    /\ styled' = {}
    /\ rendered' = <<>>
    /\ model' = <<>>
    /\ threshold' = <<>>
    /\ tab' = <<>>
    /\ inputs' = <<>>
    /\ raw_df' = <<>>
    /\ expected' = <<>>
    /\ df_new' = <<>>
    /\ scored_arg' = <<>>
    /\ prob' = <<>>
    /\ risk_str' = <<>>
    /\ entry' = <<>>
    /\ n_align' = 0
    /\ n_classify' = 0
    /\ UNCHANGED <<session_state, procVars>>

\* The browser opens the page.
OpenPage ==
    /\ status = "none"
    /\ BeginRun(<<>>, FALSE)
    /\ UNCHANGED <<uiVars>>

\* app.py:72-77, a click on a navbar button
ClickNav ==
    \E t \in Range(tabs) :
        /\ status \in {"done", "error"}
        /\ BeginRun(<<t>>, FALSE)
        /\ UNCHANGED <<uiVars>>

\* app.py:128, the user picks another option of a selectbox on the page
SelectChange ==
    \E f \in Range(Fields) : \E code \in Range(opts(f)) :
        /\ "selectboxes" \in Range(rendered)
        /\ widget[f] # code
        /\ BeginRun(<<>>, FALSE)
        /\ widget' = [widget EXCEPT ![f] = code]
        /\ UNCHANGED <<tracker, diet_log>>

\* app.py:180-184, the user sets a number input of the tracker
TrackerChange ==
    \E w \in TrackerNames :
      \E v \in {number_inputs[w].min_value, 1, number_inputs[w].max_value} :
        /\ "tracker" \in Range(rendered)
        /\ tracker[w] # v
        /\ BeginRun(<<>>, FALSE)
        /\ tracker' = [tracker EXCEPT ![w] = v]
        /\ UNCHANGED <<widget, diet_log>>

\* app.py:185, the user edits the diet log
DietChange ==
    \E text \in DietLogs :
        /\ "tracker" \in Range(rendered)
        /\ diet_log # <<text>>
        /\ BeginRun(<<>>, FALSE)
        /\ diet_log' = <<text>>
        /\ UNCHANGED <<widget, tracker>>

\* app.py:186, a click on "Save Entry"
ClickSave ==
    /\ "tracker" \in Range(rendered)
    /\ BeginRun(<<>>, TRUE)
    /\ UNCHANGED <<uiVars>>

----------------------------------------------------------------------------
\* The script, top to bottom

\* An uncaught exception ends the run; the page keeps what was rendered before
\* it and shows the exception below.  Whether the widgets the run did not
\* reach keep their stored values depends on the Streamlit release: both
\* outcomes are possible.
Raise(selectboxesRun) ==
    /\ pc' = "idle"
    /\ status' = "error"
    /\ rendered' = Append(rendered, "exception")
    /\ \E kept \in BOOLEAN :
          /\ widget' = IF kept \/ selectboxesRun THEN widget ELSE EmptyFn
          /\ tracker' = IF kept THEN tracker ELSE EmptyFn
          /\ diet_log' = IF kept THEN diet_log ELSE <<>>

\* app.py:59-97, session default, navbar and separator
Navbar ==
    /\ pc = "navbar"
    /\ LET active0 == IF "active_tab" \notin DOMAIN session_state
                      THEN tabs[1]
                      ELSE session_state["active_tab"]
           nav == NavLoop(1, active0, {}, clicked)
       IN  /\ session_state' =
                 [k \in DOMAIN session_state \cup {"active_tab"} |->
                     IF k = "active_tab" THEN nav.active_tab ELSE session_state[k]]
           /\ styled' = nav.styled
    /\ rendered' = rendered \o <<"navbar", "separator">>
    /\ pc' = "load_model"
    /\ UNCHANGED <<status, runs, uiVars, clicked, save_clicked,
                   model, threshold, tab, inputs, raw_df, expected, df_new,
                   scored_arg, prob, risk_str, entry, n_align, n_classify,
                   procVars>>

\* The files under models/ belong to the environment: they may be replaced,
\* removed or restored while the process runs, so each read finds any
\* artifact, or (<<>>) a file that is missing or cannot be unpickled.
ModelFiles == {<<>>} \cup {<<m>> : m \in ModelArtifacts}
ThresholdFiles == {<<>>} \cup {<<t>> : t \in Thresholds}

\* app.py:101, model = joblib.load(...)
LoadModel ==
    /\ pc = "load_model"
    /\ \E found \in ModelFiles :
          \/ /\ found # <<>>
             /\ model' = found
             /\ pc' = "load_threshold"
             /\ UNCHANGED <<status, rendered, uiVars>>
          \/ /\ found = <<>>
             /\ Raise(FALSE)
             /\ UNCHANGED model
    /\ UNCHANGED <<runs, session_state, clicked, save_clicked,
                   styled, threshold, tab, inputs, raw_df, expected, df_new,
                   scored_arg, prob, risk_str, entry, n_align, n_classify,
                   procVars>>

\* app.py:102, threshold = joblib.load(...)
LoadThreshold ==
    /\ pc = "load_threshold"
    /\ \E found \in ThresholdFiles :
          \/ /\ found # <<>>
             /\ threshold' = found
             /\ n_load' = n_load + 1
             /\ pc' = "dispatch"
             /\ UNCHANGED <<status, rendered, uiVars>>
          \/ /\ found = <<>>
             /\ Raise(FALSE)
             /\ UNCHANGED <<threshold, n_load>>
    /\ UNCHANGED <<runs, session_state, clicked, save_clicked,
                   styled, model, tab, inputs, raw_df, expected, df_new,
                   scored_arg, prob, risk_str, entry, n_align, n_classify,
                   n_cls, first_cls>>

\* Mutant of branch_of: the prediction block is not under the tab's branch
\* and runs whatever the tab.
branch_of_always(t) == "inputs"

\* app.py:107, 125, 164: the branch of the if/elif chain a tab takes; the
\* chain has no else, and with no match the script ends
branch_of(t) ==
    IF t = "About" THEN "about"
    ELSE IF t = "Risk Insights" THEN "inputs"
    ELSE IF t = "Mind & Move" THEN "mind"
    ELSE "idle"

\* app.py:104, tab = st.session_state.active_tab
Dispatch ==
    /\ pc = "dispatch"
    /\ tab' = <<session_state["active_tab"]>>
    /\ pc' = branch_of(session_state["active_tab"])
    /\ UNCHANGED <<status, runs, session_state, uiVars, clicked,
                   save_clicked, styled, rendered, model, threshold, inputs,
                   raw_df, expected, df_new, scored_arg, prob, risk_str,
                   entry, n_align, n_classify, procVars>>

\* app.py:107-123, the About tab
About ==
    /\ pc = "about"
    /\ rendered' = Append(rendered, "about")
    /\ pc' = "idle"
    /\ status' = "done"
    /\ widget' = EmptyFn
    /\ tracker' = EmptyFn
    /\ diet_log' = <<>>
    /\ UNCHANGED <<runs, session_state, clicked, save_clicked,
                   styled, model, threshold, tab, inputs, raw_df, expected,
                   df_new, scored_arg, prob, risk_str, entry, n_align,
                   n_classify, procVars>>

\* app.py:126-150, the ten selectboxes and the inputs dict
Inputs ==
    /\ pc = "inputs"
    /\ LET chosen == [f \in Range(Fields) |-> sel(f, widget)]
       IN  /\ inputs' = <<chosen>>
           /\ widget' = chosen
    /\ rendered' = Append(rendered, "selectboxes")
    /\ pc' = "align"
    /\ UNCHANGED <<status, runs, session_state, tracker, diet_log,
                   clicked, save_clicked, styled, model, threshold, tab,
                   raw_df, expected, df_new, scored_arg, prob, risk_str,
                   entry, n_align, n_classify, procVars>>

\* app.py:151-153, feature alignment
Align ==
    /\ pc = "align"
    /\ LET raw == DataFrame(inputs[1])
           exp == get_feature_names(model[1])
       IN  /\ raw_df' = <<raw>>
           /\ expected' = <<exp>>
           /\ df_new' = <<astype_float32(reindex(raw, exp, 0))>>
    /\ n_align' = n_align + 1
    /\ pc' = "score"
    /\ UNCHANGED <<status, runs, session_state, uiVars, clicked,
                   save_clicked, styled, rendered, model, threshold, tab,
                   inputs, scored_arg, prob, risk_str, entry, n_classify,
                   procVars>>

\* app.py:154, prob = model.predict_proba(df_new)[0, 1]
Score ==
    /\ pc = "score"
    /\ LET X == score_input(raw_df[1], df_new[1])
       IN  /\ scored_arg' = <<X>>
           /\ \/ /\ predict_accepts(model[1], X)
                 /\ prob' = <<predict_proba(model[1], X)>>
                 /\ pc' = "classify"
                 /\ UNCHANGED <<status, rendered, uiVars>>
              \/ /\ ~predict_accepts(model[1], X)
                 /\ Raise(TRUE)
                 /\ UNCHANGED prob
    /\ UNCHANGED <<runs, session_state, clicked, save_clicked,
                   styled, model, threshold, tab, inputs, raw_df, expected,
                   df_new, risk_str, entry, n_align, n_classify, procVars>>

\* Mutant of Classify: the label is kept in the session state and sticks to
\* "High risk" once the session has shown it (hysteresis).
ClassifySticky ==
    /\ pc = "classify"
    /\ risk_str' = <<IF "last_risk" \in DOMAIN session_state
                        /\ session_state["last_risk"] = "High risk"
                     THEN "High risk"
                     ELSE risk_label(prob[1], threshold[1])>>
    /\ session_state' =
          [k \in DOMAIN session_state \cup {"last_risk"} |->
              IF k = "last_risk" THEN risk_str'[1] ELSE session_state[k]]
    /\ n_classify' = n_classify + 1
    /\ n_cls' = n_cls + 1
    /\ first_cls' = IF n_cls = 0
                    THEN <<[inputs |-> inputs[1], model |-> model[1],
                            threshold |-> threshold[1], prob |-> prob[1],
                            risk_str |-> risk_str'[1], run |-> runs]>>
                    ELSE first_cls
    /\ pc' = "result"
    /\ UNCHANGED <<status, runs, uiVars, clicked, save_clicked,
                   styled, rendered, model, threshold, tab, inputs, raw_df,
                   expected, df_new, scored_arg, prob, entry, n_align,
                   n_load>>

\* app.py:155, risk_str
Classify ==
    /\ pc = "classify"
    /\ risk_str' = <<risk_label(prob[1], threshold[1])>>
    /\ n_classify' = n_classify + 1
    /\ n_cls' = n_cls + 1
    /\ first_cls' = IF n_cls = 0
                    THEN <<[inputs |-> inputs[1], model |-> model[1],
                            threshold |-> threshold[1], prob |-> prob[1],
                            risk_str |-> risk_str'[1], run |-> runs]>>
                    ELSE first_cls
    /\ pc' = "result"
    /\ UNCHANGED <<status, runs, session_state, uiVars, clicked,
                   save_clicked, styled, rendered, model, threshold, tab,
                   inputs, raw_df, expected, df_new, scored_arg, prob, entry,
                   n_align, n_load>>

\* app.py:157-162, the prediction shown
Result ==
    /\ pc = "result"
    /\ rendered' = rendered \o
          <<"subheader", "probability",
            IF risk_str[1] = "High risk" THEN "error_banner" ELSE "success_banner">>
    /\ pc' = "idle"
    /\ status' = "done"
    /\ tracker' = EmptyFn
    /\ diet_log' = <<>>
    /\ UNCHANGED <<runs, session_state, widget, clicked,
                   save_clicked, styled, model, threshold, tab, inputs,
                   raw_df, expected, df_new, scored_arg, prob, risk_str,
                   entry, n_align, n_classify, procVars>>

\* app.py:180-184, st.number_input: the stored value, or value=0
number_value(w, tr) == IF w \in DOMAIN tr THEN tr[w] ELSE number_inputs[w].value

\* app.py:164-224, the Mind & Move tab
Mind ==
    /\ pc = "mind"
    /\ LET values == [w \in TrackerNames |-> number_value(w, tracker)]
           text == IF diet_log = <<>> THEN "" ELSE diet_log[1]
       IN  /\ tracker' = values
           /\ diet_log' = <<text>>
           /\ \/ /\ save_clicked
                 /\ \E d \in Dates :
                       entry' = <<[date |-> d,
                                   meditation |-> values["meditate_mins"],
                                   exercise |-> values["exercise_mins"],
                                   water |-> values["water_glasses"],
                                   diet |-> text]>>
                 /\ rendered' = rendered \o <<"tracker", "entry", "resources">>
              \/ /\ ~save_clicked
                 /\ entry' = <<>>
                 /\ rendered' = rendered \o <<"tracker", "resources">>
    /\ pc' = "idle"
    /\ status' = "done"
    /\ widget' = EmptyFn
    /\ UNCHANGED <<runs, session_state, clicked, save_clicked,
                   styled, model, threshold, tab, inputs, raw_df, expected,
                   df_new, scored_arg, prob, risk_str, n_align, n_classify,
                   procVars>>

Next ==
    \/ OpenPage
    \/ ClickNav
    \/ SelectChange
    \/ TrackerChange
    \/ DietChange
    \/ ClickSave
    \/ Navbar
    \/ LoadModel
    \/ LoadThreshold
    \/ Dispatch
    \/ About
    \/ Inputs
    \/ Align
    \/ Score
    \/ Classify
    \/ Result
    \/ Mind

Spec == Init /\ [][Next]_vars

----------------------------------------------------------------------------
\* Properties

Defaults == [f \in Range(Fields) |-> opts(f)[1]]

RunOver == pc = "idle" /\ status \in {"done", "error"}

\* C1: the frame handed to the model has exactly the columns the model
\* declares, in the model's order and of the same count, whatever the
\* selections; a field the model does not name is not in the frame.
C1_AlignedToModel ==
    /\ df_new # <<>> =>
          /\ df_new[1].columns = get_feature_names(model[1])
          /\ Len(df_new[1].row) = Len(get_feature_names(model[1]))
          /\ \A f \in Range(Fields) :
                f \notin Range(get_feature_names(model[1]))
                    => f \notin Range(df_new[1].columns)
    /\ scored_arg # <<>> =>
          /\ scored_arg[1].columns = get_feature_names(model[1])
          /\ Len(scored_arg[1].row) = Len(get_feature_names(model[1]))

\* A changed selection was scored by a model whose list reorders the fields
\* and leaves some out.
C1_Witness ==
    /\ scored_arg # <<>>
    /\ prob # <<>>
    /\ inputs[1] # Defaults
    /\ expected[1][1] # Fields[1]
    /\ \E f \in Range(Fields) : f \notin Range(expected[1])
    /\ \E f \in Range(Fields) : f \in Range(expected[1])

\* C2: the label is "High risk" or "Low risk", and it is "High risk" exactly
\* when the probability is at least the loaded threshold.
C2_HighIffAtLeastThreshold ==
    risk_str # <<>> =>
        /\ risk_str[1] \in {"High risk", "Low risk"}
        /\ risk_str[1] = "High risk" <=> prob[1] >= threshold[1]

\* The session's first prediction sat on the threshold and was "High risk";
\* this one, under the same threshold, is one step below it and "Low risk".
C2_Witness ==
    /\ first_cls # <<>>
    /\ first_cls[1].prob = first_cls[1].threshold
    /\ first_cls[1].risk_str = "High risk"
    /\ risk_str = <<"Low risk">>
    /\ threshold[1] = first_cls[1].threshold
    /\ prob[1] = threshold[1] - 1

HasMissingColumn ==
    expected # <<>> /\ \E i \in 1..Len(expected[1]) : expected[1][i] \notin Range(Fields)

\* C3: a column the model expects and no field is named after holds exactly 0,
\* and the run still ends with the prediction on the page: no exception and
\* no warning.
C3_ZeroFillThenPrediction ==
    (df_new # <<>> /\ HasMissingColumn) =>
        /\ \A i \in 1..Len(expected[1]) :
              expected[1][i] \notin Range(Fields) => df_new[1].row[i] = 0
        /\ pc = "idle" =>
              /\ status = "done"
              /\ prob # <<>>
              /\ risk_str # <<>>
              /\ "probability" \in Range(rendered)
              /\ \E b \in {"error_banner", "success_banner"} : b \in Range(rendered)
              /\ "exception" \notin Range(rendered)
              /\ "warning" \notin Range(rendered)

C3_Witness ==
    /\ RunOver
    /\ df_new # <<>>
    /\ HasMissingColumn
    /\ "probability" \in Range(rendered)

\* C4 (as claimed): each artifact is loaded once in the life of the process,
\* so every prediction uses the one model and the one threshold that load
\* gave: those of the session's first prediction.
C4_LoadedOnce ==
    /\ n_load <= 1
    /\ (prob # <<>> /\ first_cls # <<>>) =>
          /\ model[1] = first_cls[1].model
          /\ threshold[1] = first_cls[1].threshold

\* C5 (as claimed): a run in which a load failed has computed no probability
\* and no label, and has put nothing of the page on screen.
C5_LoadFailureNoPartialOutput ==
    (status = "error" /\ (model = <<>> \/ threshold = <<>>)) =>
        /\ prob = <<>>
        /\ risk_str = <<>>
        /\ Range(rendered) \subseteq {"exception"}

\* C6 (as claimed): every rerun started by an interaction performs exactly
\* one alignment and one classification (stated of the reruns that end
\* without an exception).
C6_EveryRerunClassifies ==
    (pc = "idle" /\ status = "done" /\ runs >= 2) => n_align = 1 /\ n_classify = 1

\* C6 (amended): a run performs exactly one alignment and one classification
\* when it reaches the tab dispatch with "Risk Insights" active, and none
\* otherwise.
C6_OncePerRiskInsightsRun ==
    RunOver =>
        IF tab = <<"Risk Insights">>
        THEN n_align = 1 /\ n_classify = 1
        ELSE n_align = 0 /\ n_classify = 0

\* A rerun on "Risk Insights" has finished after a rerun that was not.
C6_Witness ==
    /\ RunOver
    /\ runs >= 3
    /\ tab = <<"Risk Insights">>
    /\ n_align = 1
    /\ n_classify = 1
    /\ n_cls = 1

\* The frame the script would build had field f been given code
Realigned(f, code) ==
    astype_float32(reindex(DataFrame([inputs[1] EXCEPT ![f] = code]), expected[1], 0))

\* C7: giving one field another code of its domain changes at most the
\* columns named after that field.  (The frame is built at "align" and is
\* looked at once, as the run reaches "score".)
C7_OnlyThatColumnChanges ==
    (pc = "score" /\ df_new # <<>>) =>
        \A f \in Range(Fields) : \A code \in Range(opts(f)) :
            LET other == Realigned(f, code)
            IN  /\ other.columns = df_new[1].columns
                /\ \A i \in 1..Len(expected[1]) :
                      expected[1][i] # f => other.row[i] = df_new[1].row[i]

\* The model's list reorders the fields, and another code changes the frame.
C7_Witness ==
    /\ pc = "score"
    /\ df_new # <<>>
    /\ expected[1][1] # Fields[1]
    /\ \E f \in Range(Fields) : \E code \in Range(opts(f)) :
          Realigned(f, code) # df_new[1]

\* C8: every stored selection, every value of the inputs dict and every
\* value scored under a field's name is a key of that field's domain.
C8_SelectionsInDomain ==
    /\ \A f \in DOMAIN widget : widget[f] \in Range(opts(f))
    /\ inputs # <<>> => \A f \in Range(Fields) : inputs[1][f] \in Range(opts(f))
    /\ scored_arg # <<>> =>
          \A i \in 1..Len(scored_arg[1].columns) :
              scored_arg[1].columns[i] \in Range(Fields)
                  => scored_arg[1].row[i] \in Range(opts(scored_arg[1].columns[i]))

\* The first prediction scored the default selections; this one scores a
\* selection the user changed.
C8_Witness ==
    /\ first_cls # <<>>
    /\ first_cls[1].inputs = Defaults
    /\ scored_arg # <<>>
    /\ inputs[1] # Defaults

SameAsFirst ==
    /\ first_cls # <<>>
    /\ risk_str # <<>>
    /\ inputs[1] = first_cls[1].inputs
    /\ model[1] = first_cls[1].model
    /\ threshold[1] = first_cls[1].threshold

ScoringKeepsState ==
    pc \in {"score", "classify"} =>
        /\ model' = model
        /\ threshold' = threshold
        /\ session_state' = session_state
        /\ widget' = widget

\* C9: a classification with the selections, model and threshold of the
\* session's first one gives its probability and label again, whatever
\* happened in between; and scoring and labelling leave the model, the
\* threshold and the session state as they were.
C9_PureClassification ==
    /\ [](SameAsFirst =>
             /\ prob[1] = first_cls[1].prob
             /\ risk_str[1] = first_cls[1].risk_str)
    /\ [][ScoringKeepsState]_vars

\* The session's first classification is repeated two runs later: the run
\* in between loaded both artifacts and classified nothing, so it rendered
\* another tab, and the user came back to Risk Insights.
C9_Witness ==
    /\ SameAsFirst
    /\ pc = "result"
    /\ n_cls = 2
    /\ runs = first_cls[1].run + 2
    /\ n_load = runs
    /\ clicked = <<"Risk Insights">>

\* C10: the frame scored is the frame this run's alignment built from this
\* run's inputs, of dtype float32, and model and threshold are loaded by then.
C10_ScoresAlignedFrame ==
    /\ scored_arg # <<>> =>
          /\ model # <<>>
          /\ threshold # <<>>
          /\ n_align = 1
          /\ df_new # <<>>
          /\ scored_arg = df_new
          /\ scored_arg[1].dtype = "float32"
          /\ scored_arg[1] =
                astype_float32(reindex(DataFrame(inputs[1]),
                                       get_feature_names(model[1]), 0))
    /\ prob # <<>> => scored_arg # <<>>

\* A frame that differs from the raw one in its columns was scored.
C10_Witness ==
    /\ prob # <<>>
    /\ scored_arg[1].columns # raw_df[1].columns

\* C11: in every script run that renders a tab, the run started by a click
\* on a navbar button included, the tab rendered is one of the three tabs,
\* it is the tab just clicked when the run was started by a click, and the
\* buttons styled as selected are exactly the button of that tab.
C11_StyledIsRenderedTab ==
    tab # <<>> =>
        /\ tab[1] \in Range(tabs)
        /\ clicked # <<>> => tab[1] = clicked[1]
        /\ styled = {tab[1]}

====
